---- MODULE Spec2Model ----
(***************************************************************************)
(* Model of pixelfunctions.c: the GDAL derived-band pixel functions of     *)
(* nansat.  One call of a pixel function is one action.  A call reads the  *)
(* packed source buffers, computes in double precision and stores into the *)
(* strided destination buffer pData through GDALCopyWords.  Spec is one    *)
(* call, SpecAgain a call followed by a second call, SpecConcurrent two    *)
(* invocations whose sample loops are interleaved.                         *)
(*                                                                         *)
(* Doubles are exact rationals n/d plus the IEEE specials; the result of a *)
(* libm function that is not a rational is kept as a term naming the       *)
(* function and its arguments (k = "sqrt", "atan2", ...).  The destination *)
(* is an array of bytes, so that the gaps the strides leave are visible.   *)
(***************************************************************************)
EXTENDS Integers, Sequences, FiniteSets, TLC

VARIABLES papoSources, nSources, pData, nXSize, nYSize, eSrcType, eBufType,
          nPixelSpace, nLineSpace, pc, called, ret, nWrites, oobRead,
          iSample, pending, other, history, todo

\* iSample and pending are the position (ii) of an invocation in its sample loop and the
\* writes of the loop's iterations; other is a second invocation that runs
\* concurrently, while it is switched out; history and todo belong to the caller:
\* the calls it has made and the pixel function it calls next.
vars == <<papoSources, nSources, pData, nXSize, nYSize, eSrcType, eBufType,
          nPixelSpace, nLineSpace, pc, called, ret, nWrites, oobRead,
          iSample, pending, other, history, todo>>

(***************************************************************************)
(* Bounds of the model.                                                    *)
(***************************************************************************)
MaxXSize == 2
MaxYSize == 2
MaxSources == 3
MaxGap == 1

(***************************************************************************)
(* Doubles.                                                                *)
(***************************************************************************)
RECURSIVE GCD(_, _)
GCD(a, b) == IF b = 0 THEN a ELSE GCD(b, a % b)

AbsI(x) == IF x < 0 THEN -x ELSE x

Val(k, n, d, m, e, c) == [k |-> k, n |-> n, d |-> d, m |-> m, e |-> e, c |-> c]

Num(n, d) ==
    LET g == GCD(AbsI(n), AbsI(d))
        s == IF d < 0 THEN -1 ELSE 1
    IN  Val("num", s * (n \div g), s * (d \div g), 0, 1, "")

Int2D(i) == Val("num", i, 1, 0, 1, "")
Zero == Int2D(0)
One == Int2D(1)
PosInf == Val("inf", 1, 0, 0, 1, "")
NegInf == Val("inf", -1, 0, 0, 1, "")
NaN == Val("nan", 0, 0, 0, 1, "")
NoVal == Val("none", 0, 1, 0, 1, "")
Sentinel == Val("sentinel", 0, 1, 0, 1, "")

IsNum(v) == v.k = "num"
IsInfinity(v) == v.k = "inf"

\* A term f(n/d) or f(n/d, m/e) standing for a libm result that is no rational.
Term1(f, a) == Val(f, a.n, a.d, 0, 1, "")
Term2(f, a, b) == Val(f, a.n, a.d, b.n, b.d, "")

Add(a, b) == Num(a.n * b.d + b.n * a.d, a.d * b.d)
Neg(a) == Num(-a.n, a.d)
Sub(a, b) == Add(a, Neg(b))
Mul(a, b) == Num(a.n * b.n, a.d * b.d)
Less(a, b) == a.n * b.d < b.n * a.d
Div(a, b) ==
    IF b.n # 0 THEN Num(a.n * b.d, a.d * b.n)
    ELSE IF a.n > 0 THEN PosInf
    ELSE IF a.n < 0 THEN NegInf
    ELSE NaN

\* (int) x : truncation toward zero
Trunc(a) == IF a.n >= 0 THEN a.n \div a.d ELSE -((-a.n) \div a.d)
\* rounding to the nearest integer, halves away from zero
Round(a) ==
    IF a.n >= 0 THEN (2 * a.n + a.d) \div (2 * a.d)
    ELSE -((2 * (-a.n) + a.d) \div (2 * a.d))

IsSquare(i) == \E r \in 0..i : r * r = i
Root(i) == CHOOSE r \in 0..i : r * r = i


(***************************************************************************)
(* libm and stdlib functions, as the C code calls them.                    *)
(***************************************************************************)
Pi == Val("pi", 0, 1, 0, 1, "")

sqrt(v) ==
    IF v.n < 0 THEN NaN
    ELSE IF IsSquare(v.n) /\ IsSquare(v.d) THEN Num(Root(v.n), Root(v.d))
    ELSE Term1("sqrt", v)

\* int abs(int) of <stdlib.h>: the double argument is converted to int first
abs(v) == Int2D(AbsI(Trunc(v)))

atan2(y, x) ==
    IF y.n = 0 /\ x.n >= 0 THEN Zero
    ELSE IF y.n = 0 THEN Pi
    ELSE Term2("atan2", y, x)

log10(v) ==
    IF v.n = 0 THEN NegInf
    ELSE IF v.n < 0 THEN NaN
    ELSE IF v = One THEN Zero
    ELSE Term1("log10", v)

pow(base, e) ==
    IF e.n = 0 THEN One
    ELSE IF e = One THEN base
    ELSE IF e = Int2D(2) THEN Mul(base, base)
    ELSE Term2("pow", base, e)

\* asin(r) * 180 / 3.14159265
AsinDeg(r) ==
    IF r.n = 0 THEN Zero
    ELSE IF Less(One, r) \/ Less(r, Int2D(-1)) THEN NaN
    ELSE Term1("asin*180/PI", r)

\* n degrees up to the difference between pi and 3.14159265 (about 1e-7 degrees)
NearDegrees(n) == Val("near", n, 1, 0, 1, "")

\* atan2(y, x) * 180 / 3.14159265 + 180, exact on the axes.  Doubles are kept
\* without the sign of zero, so zeroSign tells it: -1 where the arguments are
\* negations of source values (a zero argument is -0.0), 1 where they are
\* source values.  atan2(+-0, x > 0) = +-0, atan2(+0, x <= -0) = pi,
\* atan2(-0, x <= -0) = -pi, atan2(y > 0, +-0) = pi/2, atan2(y < 0, +-0) = -pi/2.
Atan2DegPlus180(y, x, zeroSign) ==
    IF ~(IsNum(y) /\ IsNum(x)) THEN Term2("atan2*180/PI+180", y, x)
    ELSE IF y.n = 0 THEN
        IF x.n > 0 \/ (x.n = 0 /\ zeroSign = 1) THEN Int2D(180)
        ELSE IF zeroSign = 1 THEN NearDegrees(360)
        ELSE NearDegrees(0)
    ELSE IF x.n = 0 THEN
        IF y.n > 0 THEN NearDegrees(270) ELSE NearDegrees(90)
    ELSE Term2("atan2*180/PI+180", y, x)

(***************************************************************************)
(* GDAL data types (gdal.h).                                               *)
(***************************************************************************)
SrcTypes == {"Int16", "Float32", "CInt16", "CFloat32"}
BufTypes == {"Byte", "Int16", "Float64", "CFloat32"}

GDALGetDataTypeSize(t) ==
    CASE t = "Byte" -> 8
      [] t = "Int16" -> 16
      [] t = "Float32" -> 32
      [] t = "Float64" -> 64
      [] t = "CInt16" -> 32
      [] t = "CFloat32" -> 64
      [] t = "CFloat64" -> 128

GDALDataTypeIsComplex(t) == t \in {"CInt16", "CFloat32", "CFloat64"}

\* the type of one component (the whole sample for a real type)
ComponentType(t) ==
    CASE t = "CInt16" -> "Int16"
      [] t = "CFloat32" -> "Float32"
      [] t = "CFloat64" -> "Float64"
      [] OTHER -> t

IsIntegerType(t) == ComponentType(t) \in {"Byte", "Int16"}

ComponentSize(t) ==
    IF GDALDataTypeIsComplex(t) THEN (GDALGetDataTypeSize(t) \div 8) \div 2
    ELSE GDALGetDataTypeSize(t) \div 8

Clamp(i, lo, hi) == IF i < lo THEN lo ELSE IF i > hi THEN hi ELSE i

IsDyadic(d) == d \in {1, 2, 4, 8, 16, 32, 64}

\* Conversion of one double to one component of the destination type.  A value
\* that is no rational keeps its term, marked with the type it was converted to.
ConvertComponent(v, ct) ==
    IF ct = "Float64" THEN v
    ELSE IF ct = "Float32" THEN
        IF (IsNum(v) /\ IsDyadic(v.d)) \/ v.k \in {"inf", "nan"} THEN v
        ELSE [v EXCEPT !.c = ct]
    ELSE IF ~IsNum(v) THEN [v EXCEPT !.c = ct]
    ELSE IF ct = "Byte" THEN Int2D(Clamp(Round(v), 0, 255))
    ELSE Int2D(Clamp(Round(v), -32768, 32767))

\* A word handed to GDALCopyWords: a double (GDT_Float64), a pair of doubles
\* (GDT_CFloat64) or a word of a source buffer.
RealWord(v) == [re |-> v, im |-> NoVal, cplx |-> FALSE]
ComplexWord(re, im) == [re |-> re, im |-> im, cplx |-> TRUE]

\* GDALCopyWords for one word: complex to real keeps the real part, real to
\* complex sets the imaginary part to 0, complex to complex copies both parts.
GDALCopyWord(w, eDstType) ==
    LET ct == ComponentType(eDstType)
    IN  IF GDALDataTypeIsComplex(eDstType)
        THEN [re |-> ConvertComponent(w.re, ct),
              im |-> IF w.cplx THEN ConvertComponent(w.im, ct) ELSE Zero]
        ELSE [re |-> ConvertComponent(w.re, ct), im |-> NoVal]

(***************************************************************************)
(* Source buffers: packed, one sequence of components per source (a        *)
(* complex sample is two consecutive components, real part first).  A      *)
(* pointer into a source is a byte offset from its start.                  *)
(***************************************************************************)
\* the values the source samples are drawn from, as <<numerator, denominator>>
Pool == << <<1, 1>>, <<2, 1>>, <<3, 1>>, <<4, 1>>, <<-1, 1>>,
           <<5, 1>>, <<6, 1>>, <<7, 1>>, <<8, 1>>, <<0, 1>>,
           <<0, 1>>, <<0, 1>>, <<1, 1>>, <<-5, 2>>, <<1, 2>>,
           <<-1, 1>>, <<2, 1>>, <<0, 1>>, <<-3, 1>>, <<-4, 1>> >>

\* where in the pool the first source starts: at a (real, imaginary) pair
Seeds == {s \in 0..(Len(Pool) - 1) : s % 2 = 0}

\* by how much the values of consecutive sources are shifted in the pool
SourceShift == Len(Pool) \div 4

ComponentsPerSample(t) == IF GDALDataTypeIsComplex(t) THEN 2 ELSE 1

\* a pool value as a value the source type can hold
Representable(q, t) ==
    IF IsIntegerType(t) THEN Int2D(Trunc(Num(q[1], q[2]))) ELSE Num(q[1], q[2])

SourceBuffer(seed, iSrc, t, nSamples) ==
    [k \in 1..(nSamples * ComponentsPerSample(t)) |->
        Representable(Pool[((seed + SourceShift * iSrc + k - 1) % Len(Pool)) + 1], t)]

\* what a read outside a source buffer may return
Garbage == {Int2D(0), Int2D(77)}

ComponentIndex(byteOff, t, ii) ==
    (byteOff \div ComponentSize(t)) + ii * ComponentsPerSample(t)

\* SRCVAL(p, eSrcType, ii) with p = papoSources[iSrc] + byteOff
SRCVAL(iSrc, byteOff, t, ii) ==
    papoSources[iSrc + 1][ComponentIndex(byteOff, t, ii) + 1]

\* the word GDALCopyWords reads at papoSources[iSrc] + byteOff when it copies
\* from type t to eDstType; the imaginary part is read for a complex destination
SourceWord(iSrc, byteOff, t, eDstType, g) ==
    LET buf == papoSources[iSrc + 1]
        i == byteOff \div ComponentSize(t)
        at(j) == IF j + 1 \in DOMAIN buf THEN buf[j + 1] ELSE g
    IN  IF GDALDataTypeIsComplex(t)
        THEN IF GDALDataTypeIsComplex(eDstType)
             THEN ComplexWord(at(i), at(i + 1))
             ELSE ComplexWord(at(i), NoVal)
        ELSE RealWord(at(i))

SourceWordOutside(iSrc, byteOff, t, eDstType) ==
    LET i == byteOff \div ComponentSize(t)
        last == IF GDALDataTypeIsComplex(t) /\ GDALDataTypeIsComplex(eDstType)
                THEN i + 1 ELSE i
    IN  last + 1 > Len(papoSources[iSrc + 1])

(***************************************************************************)
(* The destination buffer: bytes.  A stored element e of the destination   *)
(* type covers GDALGetDataTypeSize / 8 bytes, byte j of it holds <<e, j>>. *)
(***************************************************************************)
ElementSize(t) == GDALGetDataTypeSize(t) \div 8

SentinelByte == [e |-> [re |-> Sentinel, im |-> Sentinel], j |-> 0]

\* the writes that cover byte a, as indices into the sequence of writes ws
Covering(ws, a, size) == {k \in DOMAIN ws : ws[k].addr <= a /\ a < ws[k].addr + size}

SetMax(S) == CHOOSE x \in S : \A y \in S : y <= x

\* memory after the writes ws were done in order
Store(mem, ws, size) ==
    [a \in DOMAIN mem |->
        LET c == Covering(ws, a, size)
        IN  IF c = {} THEN mem[a]
            ELSE LET k == SetMax(c) IN [e |-> ws[k].e, j |-> a - ws[k].addr]]

CountWrites(cnt, ws, size) ==
    [a \in DOMAIN cnt |-> cnt[a] + Cardinality(Covering(ws, a, size))]

\* GDALCopyWords(&word, GDT_Float64 or GDT_CFloat64, 0, pData + dstOff, eDstType,
\*               dstStride, nWordCount) from a local variable
GDALCopyWordsLocal(w, dstOff, eDstType, dstStride, nWordCount) ==
    [n \in 1..nWordCount |->
        [addr |-> dstOff + (n - 1) * dstStride, e |-> GDALCopyWord(w, eDstType)]]

\* GDALCopyWords(papoSources[iSrc] + srcOff, t, srcStride, pData + dstOff,
\*               eDstType, dstStride, nWordCount)
GDALCopyWords(iSrc, srcOff, t, srcStride, dstOff, eDstType, dstStride, nWordCount, g) ==
    [n \in 1..nWordCount |->
        [addr |-> dstOff + (n - 1) * dstStride,
         e |-> GDALCopyWord(SourceWord(iSrc, srcOff + (n - 1) * srcStride, t, eDstType, g),
                            eDstType)]]

(***************************************************************************)
(* Initial state: a caller has set up the arguments of one call.           *)
(***************************************************************************)
InitCall ==
    /\ nXSize \in 1..MaxXSize
    /\ nYSize \in 1..MaxYSize
    /\ eSrcType \in SrcTypes
    /\ eBufType \in BufTypes
    /\ nSources \in 1..MaxSources
    /\ nPixelSpace \in {ElementSize(eBufType) + gap : gap \in {0, MaxGap}}
    /\ nLineSpace \in {nXSize * nPixelSpace + gap : gap \in {0, MaxGap}}
    /\ \E seed \in Seeds :
        papoSources = [s \in 1..nSources |->
                          SourceBuffer(seed, s - 1, eSrcType, nXSize * nYSize)]
    /\ pData = [a \in 0..(nYSize * nLineSpace - 1) |-> SentinelByte]
    /\ nWrites = [a \in 0..(nYSize * nLineSpace - 1) |-> 0]
    /\ pc = "idle"
    /\ called = "none"
    /\ ret = "none"
    /\ oobRead = FALSE
    /\ iSample = 0
    /\ pending = << >>
    /\ history = << >>

\* no second invocation
NoContext == [live |-> FALSE]

\* one call, run alone, of any pixel function
Init ==
    /\ InitCall
    /\ other = NoContext
    /\ todo = "any"

args == <<papoSources, nSources, nXSize, nYSize, eSrcType, eBufType,
          nPixelSpace, nLineSpace>>

\* return CE_Failure
Failure(name) ==
    /\ todo \in {"any", name}
    /\ pc' = "done"
    /\ called' = name
    /\ ret' = "CE_Failure"
    /\ UNCHANGED <<args, pData, nWrites, oobRead, iSample, pending, other, history, todo>>

\* the writes ws were done, then return CE_None
\* With a second invocation running, the call is followed sample by sample: it
\* enters its loop here, NextSample does the iterations and Return ends it.
Success(name, ws, oob) ==
    /\ todo \in {"any", name}
    /\ called' = name
    /\ oobRead' = oob
    /\ IF other.live
       THEN /\ pc' = "loop"
            /\ iSample' = 0
            /\ pending' = ws
            /\ UNCHANGED <<ret, pData, nWrites>>
       ELSE /\ pc' = "done"
            /\ ret' = "CE_None"
            /\ pData' = Store(pData, ws, ElementSize(eBufType))
            /\ nWrites' = CountWrites(nWrites, ws, ElementSize(eBufType))
            /\ UNCHANGED <<iSample, pending>>
    /\ UNCHANGED <<args, other, history, todo>>

\* the lines and the linear sample indices of the tile
Lines == 0..(nYSize - 1)
Samples == 0..(nXSize * nYSize - 1)

\* mutant: the pixel stride is taken to be the element size
DestOffset_Packed(iLine, iCol) == nLineSpace * iLine + iCol * ElementSize(eBufType)

\* ((GByte *)pData) + nLineSpace * iLine + iCol * nPixelSpace
DestOffset(iLine, iCol) == nLineSpace * iLine + iCol * nPixelSpace

\* for (iLine...) GDALCopyWords(..., nXSize): the words of all lines, in order
\* line[iLine] is the sequence of words GDALCopyWords stores for line iLine
LineLoop(line) ==
    [k \in 1..(nXSize * nYSize) |-> line[(k - 1) \div nXSize][((k - 1) % nXSize) + 1]]

\* for (iLine...) for (iCol...) { word = Pixel(ii); GDALCopyWords(&word, ..., 1) }
\* pixel[ii] is the word computed for sample ii
PixelLoop(pixel) ==
    [k \in 1..(nXSize * nYSize) |->
        LET iLine == (k - 1) \div nXSize
            iCol == (k - 1) % nXSize
        IN  GDALCopyWordsLocal(pixel[k - 1], DestOffset(iLine, iCol),
                               eBufType, nPixelSpace, 1)[1]]

(***************************************************************************)
(* The pixel functions.  XxxPixel(ii) is the body of the sample loop: the  *)
(* word handed to GDALCopyWords for sample ii.                             *)
(***************************************************************************)
\* nOffset = GDALGetDataTypeSize( eSrcType ) / 8 / 2
nOffset == (GDALGetDataTypeSize(eSrcType) \div 8) \div 2

RealLine(iLine) ==
    LET nPixelSpaceSrc == GDALGetDataTypeSize(eSrcType) \div 8
        nLineSpaceSrc == nPixelSpaceSrc * nXSize
    IN  GDALCopyWords(0, nLineSpaceSrc * iLine, eSrcType, nPixelSpaceSrc,
                      nLineSpace * iLine, eBufType, nPixelSpace, nXSize, NoVal)

RealOutside ==
    \E iLine \in 0..(nYSize - 1), n \in 0..(nXSize - 1) :
        LET nPixelSpaceSrc == GDALGetDataTypeSize(eSrcType) \div 8
        IN  SourceWordOutside(0, nPixelSpaceSrc * nXSize * iLine + n * nPixelSpaceSrc,
                              eSrcType, eBufType)

RealPixelFunc ==
    /\ pc = "idle"
    /\ IF nSources # 1 THEN Failure("real")
       ELSE Success("real", LineLoop([iLine \in Lines |-> RealLine(iLine)]), RealOutside)

\* GDALCopyWords reads at pImag + nLineSpaceSrc * iLine + n * nPixelSpaceSrc
ImagSourceOffset(iLine, n) ==
    LET nPixelSpaceSrc == GDALGetDataTypeSize(eSrcType) \div 8
        nLineSpaceSrc == nPixelSpaceSrc * nXSize
        pImag == (GDALGetDataTypeSize(eSrcType) \div 8) \div 2
    IN  pImag + nLineSpaceSrc * iLine + n * nPixelSpaceSrc

ImagOutside ==
    \E iLine \in 0..(nYSize - 1), n \in 0..(nXSize - 1) :
        SourceWordOutside(0, ImagSourceOffset(iLine, n), eSrcType, eBufType)

\* mutant: the real-source branch copies the source instead of dfImag
ImagWrites_CopiesSource(g) ==
    LET Line(iLine) ==
            GDALCopyWords(0, (GDALGetDataTypeSize(eSrcType) \div 8) * nXSize * iLine,
                          eSrcType, GDALGetDataTypeSize(eSrcType) \div 8,
                          nLineSpace * iLine, eBufType, nPixelSpace, nXSize, g)
    IN  LineLoop([iLine \in Lines |-> Line(iLine)])

ImagWrites(g) ==
    IF GDALDataTypeIsComplex(eSrcType)
    THEN LET Line(iLine) ==
                 GDALCopyWords(0, ImagSourceOffset(iLine, 0), eSrcType,
                               GDALGetDataTypeSize(eSrcType) \div 8,
                               nLineSpace * iLine, eBufType, nPixelSpace, nXSize, g)
         IN  LineLoop([iLine \in Lines |-> Line(iLine)])
    ELSE LET dfImag == Zero
             \* always copy from the same location
             Line(iLine) ==
                 GDALCopyWordsLocal(RealWord(dfImag), nLineSpace * iLine,
                                    eBufType, nPixelSpace, nXSize)
         IN  LineLoop([iLine \in Lines |-> Line(iLine)])

ImagPixelFunc ==
    /\ pc = "idle"
    /\ IF nSources # 1 THEN Failure("imag")
       ELSE \E g \in Garbage :
               Success("imag", ImagWrites(g),
                       GDALDataTypeIsComplex(eSrcType) /\ ImagOutside)

ModulePixel(ii) ==
    IF GDALDataTypeIsComplex(eSrcType)
    THEN LET dfReal == SRCVAL(0, 0, eSrcType, ii)
             dfImag == SRCVAL(0, nOffset, eSrcType, ii)
         IN  RealWord(sqrt(Add(Mul(dfReal, dfReal), Mul(dfImag, dfImag))))
    ELSE RealWord(abs(SRCVAL(0, 0, eSrcType, ii)))

ModulePixelFunc ==
    /\ pc = "idle"
    /\ IF nSources # 1 THEN Failure("mod")
       ELSE Success("mod", PixelLoop([ii \in Samples |-> ModulePixel(ii)]), FALSE)

\* mutant: dfReal <= 0 instead of dfReal < 0
PhasePixel_ZeroIsNegative(ii) ==
    LET pi == atan2(Zero, Int2D(-1))
        dfReal == SRCVAL(0, 0, eSrcType, ii)
    IN  RealWord(IF ~Less(Zero, dfReal) THEN pi ELSE Zero)

PhasePixel(ii) ==
    IF GDALDataTypeIsComplex(eSrcType)
    THEN LET dfReal == SRCVAL(0, 0, eSrcType, ii)
             dfImag == SRCVAL(0, nOffset, eSrcType, ii)
         IN  RealWord(atan2(dfImag, dfReal))
    ELSE LET pi == atan2(Zero, Int2D(-1))
             dfReal == SRCVAL(0, 0, eSrcType, ii)
         IN  RealWord(IF Less(dfReal, Zero) THEN pi ELSE Zero)

PhasePixelFunc ==
    /\ pc = "idle"
    /\ IF nSources # 1 THEN Failure("phase")
       ELSE Success("phase", PixelLoop([ii \in Samples |-> PhasePixel(ii)]), FALSE)

\* mutant: the imaginary part is read through the pointer to the real part
ConjPixel_ImagFromReal(ii) ==
    ComplexWord(SRCVAL(0, 0, eSrcType, ii), Neg(SRCVAL(0, 0, eSrcType, ii)))

ConjPixel(ii) ==
    ComplexWord(SRCVAL(0, 0, eSrcType, ii), Neg(SRCVAL(0, nOffset, eSrcType, ii)))

\* mutant: without a complex data type the call is passed on to ImagPixelFunc
ConjPixelFunc_FallsBackToImag ==
    /\ pc = "idle"
    /\ IF nSources # 1 THEN Failure("conj")
       ELSE IF GDALDataTypeIsComplex(eSrcType) /\ GDALDataTypeIsComplex(eBufType)
       THEN Success("conj", PixelLoop([ii \in Samples |-> ConjPixel(ii)]), FALSE)
       ELSE \E g \in Garbage : Success("conj", ImagWrites(g), FALSE)

ConjPixelFunc ==
    /\ pc = "idle"
    /\ IF nSources # 1 THEN Failure("conj")
       ELSE IF GDALDataTypeIsComplex(eSrcType) /\ GDALDataTypeIsComplex(eBufType)
       THEN Success("conj", PixelLoop([ii \in Samples |-> ConjPixel(ii)]), FALSE)
       ELSE \* no complex data type: return RealPixelFunc(...)
            Success("conj", LineLoop([iLine \in Lines |-> RealLine(iLine)]), RealOutside)

\* the running sum over sources iSrc .. nSources - 1 of component byteOff
RECURSIVE SumFrom(_, _, _)
SumFrom(iSrc, byteOff, ii) ==
    IF iSrc >= nSources THEN Zero
    ELSE Add(SRCVAL(iSrc, byteOff, eSrcType, ii), SumFrom(iSrc + 1, byteOff, ii))

\* mutant: the loop over the sources starts at iSrc = 1
SumPixel_SkipsFirst(ii) ==
    IF GDALDataTypeIsComplex(eSrcType)
    THEN ComplexWord(SumFrom(1, 0, ii), SumFrom(1, nOffset, ii))
    ELSE RealWord(SumFrom(1, 0, ii))

SumPixel(ii) ==
    IF GDALDataTypeIsComplex(eSrcType)
    THEN ComplexWord(SumFrom(0, 0, ii), SumFrom(0, nOffset, ii))
    ELSE RealWord(SumFrom(0, 0, ii))

SumPixelFunc ==
    /\ pc = "idle"
    /\ IF nSources < 2 THEN Failure("sum")
       ELSE Success("sum", PixelLoop([ii \in Samples |-> SumPixel(ii)]), FALSE)

\* mutant: the imaginary parts are added
DiffPixel_ImagAdded(ii) ==
    IF GDALDataTypeIsComplex(eSrcType)
    THEN ComplexWord(Sub(SRCVAL(0, 0, eSrcType, ii), SRCVAL(1, 0, eSrcType, ii)),
                     Add(SRCVAL(0, nOffset, eSrcType, ii),
                         SRCVAL(1, nOffset, eSrcType, ii)))
    ELSE RealWord(Sub(SRCVAL(0, 0, eSrcType, ii), SRCVAL(1, 0, eSrcType, ii)))

DiffPixel(ii) ==
    IF GDALDataTypeIsComplex(eSrcType)
    THEN ComplexWord(Sub(SRCVAL(0, 0, eSrcType, ii), SRCVAL(1, 0, eSrcType, ii)),
                     Sub(SRCVAL(0, nOffset, eSrcType, ii),
                         SRCVAL(1, nOffset, eSrcType, ii)))
    ELSE RealWord(Sub(SRCVAL(0, 0, eSrcType, ii), SRCVAL(1, 0, eSrcType, ii)))

\* mutant: the arity test of sum and mul
DiffPixelFunc_AtLeastTwo ==
    /\ pc = "idle"
    /\ IF nSources < 2 THEN Failure("diff")
       ELSE Success("diff", PixelLoop([ii \in Samples |-> DiffPixel(ii)]), FALSE)

DiffPixelFunc ==
    /\ pc = "idle"
    /\ IF nSources # 2 THEN Failure("diff")
       ELSE Success("diff", PixelLoop([ii \in Samples |-> DiffPixel(ii)]), FALSE)

\* mutant: adfPixVal[0] is overwritten before adfPixVal[1] is computed from it
RECURSIVE MulUpTo_Overwritten(_, _)
MulUpTo_Overwritten(iSrc, ii) ==
    IF iSrc = 0 THEN <<One, Zero>>
    ELSE LET old == MulUpTo_Overwritten(iSrc - 1, ii)
             dfOldI == old[2]
             dfNewR == SRCVAL(iSrc - 1, 0, eSrcType, ii)
             dfNewI == SRCVAL(iSrc - 1, nOffset, eSrcType, ii)
             first == Sub(Mul(old[1], dfNewR), Mul(dfOldI, dfNewI))
         IN  <<first, Add(Mul(first, dfNewI), Mul(dfOldI, dfNewR))>>

\* adfPixVal after the sources 0 .. iSrc - 1 were multiplied in
RECURSIVE MulUpTo(_, _)
MulUpTo(iSrc, ii) ==
    IF iSrc = 0 THEN <<One, Zero>>
    ELSE LET old == MulUpTo(iSrc - 1, ii)
             dfOldR == old[1]
             dfOldI == old[2]
             dfNewR == SRCVAL(iSrc - 1, 0, eSrcType, ii)
             dfNewI == SRCVAL(iSrc - 1, nOffset, eSrcType, ii)
         IN  <<Sub(Mul(dfOldR, dfNewR), Mul(dfOldI, dfNewI)),
               Add(Mul(dfOldR, dfNewI), Mul(dfOldI, dfNewR))>>

RECURSIVE MulRealUpTo(_, _)
MulRealUpTo(iSrc, ii) ==
    IF iSrc = 0 THEN One
    ELSE Mul(MulRealUpTo(iSrc - 1, ii), SRCVAL(iSrc - 1, 0, eSrcType, ii))

MulPixel(ii) ==
    IF GDALDataTypeIsComplex(eSrcType)
    THEN ComplexWord(MulUpTo(nSources, ii)[1], MulUpTo(nSources, ii)[2])
    ELSE RealWord(MulRealUpTo(nSources, ii))

MulPixelFunc ==
    /\ pc = "idle"
    /\ IF nSources < 2 THEN Failure("mul")
       ELSE Success("mul", PixelLoop([ii \in Samples |-> MulPixel(ii)]), FALSE)

\* mutant: the non-complex branch leaves the product in both elements of adfPixVal
CMulPixel_ImagNotCleared(ii) ==
    IF GDALDataTypeIsComplex(eSrcType)
    THEN LET dfReal0 == SRCVAL(0, 0, eSrcType, ii)
             dfReal1 == SRCVAL(1, 0, eSrcType, ii)
             dfImag0 == SRCVAL(0, nOffset, eSrcType, ii)
             dfImag1 == SRCVAL(1, nOffset, eSrcType, ii)
         IN  ComplexWord(Add(Mul(dfReal0, dfReal1), Mul(dfImag0, dfImag1)),
                         Sub(Mul(dfReal1, dfImag0), Mul(dfReal0, dfImag1)))
    ELSE ComplexWord(Mul(SRCVAL(0, 0, eSrcType, ii), SRCVAL(1, 0, eSrcType, ii)),
                     Mul(SRCVAL(0, 0, eSrcType, ii), SRCVAL(1, 0, eSrcType, ii)))

CMulPixel(ii) ==
    IF GDALDataTypeIsComplex(eSrcType)
    THEN LET dfReal0 == SRCVAL(0, 0, eSrcType, ii)
             dfReal1 == SRCVAL(1, 0, eSrcType, ii)
             dfImag0 == SRCVAL(0, nOffset, eSrcType, ii)
             dfImag1 == SRCVAL(1, nOffset, eSrcType, ii)
         IN  ComplexWord(Add(Mul(dfReal0, dfReal1), Mul(dfImag0, dfImag1)),
                         Sub(Mul(dfReal1, dfImag0), Mul(dfReal0, dfImag1)))
    ELSE \* adfPixVal[2] = {0, 0}; only adfPixVal[0] is assigned in the loop
         ComplexWord(Mul(SRCVAL(0, 0, eSrcType, ii), SRCVAL(1, 0, eSrcType, ii)), Zero)

CMulPixelFunc ==
    /\ pc = "idle"
    /\ IF nSources # 2 THEN Failure("cmul")
       ELSE Success("cmul", PixelLoop([ii \in Samples |-> CMulPixel(ii)]), FALSE)

\* mutant: a guard against the division by zero
InvPixel_Guarded(ii) ==
    IF GDALDataTypeIsComplex(eSrcType)
    THEN LET dfReal == SRCVAL(0, 0, eSrcType, ii)
             dfImag == SRCVAL(0, nOffset, eSrcType, ii)
             dfAux == Add(Mul(dfReal, dfReal), Mul(dfImag, dfImag))
         IN  ComplexWord(Div(dfReal, dfAux), Div(Neg(dfImag), dfAux))
    ELSE IF SRCVAL(0, 0, eSrcType, ii) = Zero THEN RealWord(Zero)
    ELSE RealWord(Div(One, SRCVAL(0, 0, eSrcType, ii)))

InvPixel(ii) ==
    IF GDALDataTypeIsComplex(eSrcType)
    THEN LET dfReal == SRCVAL(0, 0, eSrcType, ii)
             dfImag == SRCVAL(0, nOffset, eSrcType, ii)
             dfAux == Add(Mul(dfReal, dfReal), Mul(dfImag, dfImag))
         IN  ComplexWord(Div(dfReal, dfAux), Div(Neg(dfImag), dfAux))
    ELSE RealWord(Div(One, SRCVAL(0, 0, eSrcType, ii)))

InvPixelFunc ==
    /\ pc = "idle"
    /\ IF nSources # 1 THEN Failure("inv")
       ELSE Success("inv", PixelLoop([ii \in Samples |-> InvPixel(ii)]), FALSE)

IntensityPixel(ii) ==
    IF GDALDataTypeIsComplex(eSrcType)
    THEN LET dfReal == SRCVAL(0, 0, eSrcType, ii)
             dfImag == SRCVAL(0, nOffset, eSrcType, ii)
         IN  RealWord(Add(Mul(dfReal, dfReal), Mul(dfImag, dfImag)))
    ELSE LET dfPixVal == SRCVAL(0, 0, eSrcType, ii)
         IN  RealWord(Mul(dfPixVal, dfPixVal))

IntensityPixelFunc ==
    /\ pc = "idle"
    /\ IF nSources # 1 THEN Failure("intensity")
       ELSE Success("intensity", PixelLoop([ii \in Samples |-> IntensityPixel(ii)]), FALSE)

SqrtPixel(ii) == RealWord(sqrt(SRCVAL(0, 0, eSrcType, ii)))

\* mutant: no test of the source type
SqrtPixelFunc_NoTypeTest ==
    /\ pc = "idle"
    /\ IF nSources # 1 THEN Failure("sqrt")
       ELSE Success("sqrt", PixelLoop([ii \in Samples |-> SqrtPixel(ii)]), FALSE)

SqrtPixelFunc ==
    /\ pc = "idle"
    /\ IF nSources # 1 THEN Failure("sqrt")
       ELSE IF GDALDataTypeIsComplex(eSrcType) THEN Failure("sqrt")
       ELSE Success("sqrt", PixelLoop([ii \in Samples |-> SqrtPixel(ii)]), FALSE)

Log10Pixel(ii) ==
    IF GDALDataTypeIsComplex(eSrcType)
    THEN LET dfReal == SRCVAL(0, 0, eSrcType, ii)
             dfImag == SRCVAL(0, nOffset, eSrcType, ii)
         IN  RealWord(log10(Add(Mul(dfReal, dfReal), Mul(dfImag, dfImag))))
    ELSE RealWord(log10(abs(SRCVAL(0, 0, eSrcType, ii))))

Log10PixelFunc ==
    /\ pc = "idle"
    /\ IF nSources # 1 THEN Failure("log10")
       ELSE Success("log10", PixelLoop([ii \in Samples |-> Log10Pixel(ii)]), FALSE)

PowPixelFuncHelper(name, base, fact) ==
    LET Pixel(ii) == RealWord(pow(base, Div(SRCVAL(0, 0, eSrcType, ii), fact)))
    IN  /\ pc = "idle"
        /\ IF nSources # 1 THEN Failure(name)
           ELSE IF GDALDataTypeIsComplex(eSrcType) THEN Failure(name)
           ELSE Success(name, PixelLoop([ii \in Samples |-> Pixel(ii)]), FALSE)

dB2AmpPixelFunc == PowPixelFuncHelper("dB2amp", Int2D(10), Int2D(20))

dB2PowPixelFunc == PowPixelFuncHelper("dB2pow", Int2D(10), Int2D(10))

(***************************************************************************)
(* Nansat pixel functions.                                                 *)
(***************************************************************************)
\* mutant: no test of beta0 before the division
BetaSigmaToIncidencePixel_NoGuard(ii) ==
    LET beta0 == SRCVAL(0, 0, eSrcType, ii)
        sigma0 == SRCVAL(1, 0, eSrcType, ii)
    IN  RealWord(AsinDeg(Div(sigma0, beta0)))

BetaSigmaToIncidencePixel(ii) ==
    LET beta0 == SRCVAL(0, 0, eSrcType, ii)
        sigma0 == SRCVAL(1, 0, eSrcType, ii)
    IN  RealWord(IF beta0 # Zero THEN AsinDeg(Div(sigma0, beta0)) ELSE Zero)

BetaSigmaToIncidence ==
    /\ pc = "idle"
    /\ IF nSources # 2 THEN Failure("BetaSigmaToIncidence")
       ELSE Success("BetaSigmaToIncidence",
                    PixelLoop([ii \in Samples |-> BetaSigmaToIncidencePixel(ii)]), FALSE)

UVToMagnitudePixel(ii) ==
    LET u == SRCVAL(0, 0, eSrcType, ii)
        v == SRCVAL(1, 0, eSrcType, ii)
    IN  RealWord(sqrt(Add(Mul(u, u), Mul(v, v))))

UVToMagnitude ==
    /\ pc = "idle"
    /\ IF nSources # 2 THEN Failure("UVToMagnitude")
       ELSE Success("UVToMagnitude", PixelLoop([ii \in Samples |-> UVToMagnitudePixel(ii)]), FALSE)

\* mutant: the components are not negated (the direction the wind comes from)
UVToDirectionToPixel_NotNegated(ii) ==
    LET u == SRCVAL(0, 0, eSrcType, ii)
        v == SRCVAL(1, 0, eSrcType, ii)
    IN  RealWord(Atan2DegPlus180(u, v, 1))

UVToDirectionToPixel(ii) ==
    LET u == SRCVAL(0, 0, eSrcType, ii)
        v == SRCVAL(1, 0, eSrcType, ii)
    IN  RealWord(Atan2DegPlus180(Neg(u), Neg(v), -1))

UVToDirectionTo ==
    /\ pc = "idle"
    /\ IF nSources # 2 THEN Failure("UVToDirectionTo")
       ELSE Success("UVToDirectionTo",
                    PixelLoop([ii \in Samples |-> UVToDirectionToPixel(ii)]), FALSE)

UVToDirectionFromPixel(ii) ==
    LET u == SRCVAL(0, 0, eSrcType, ii)
        v == SRCVAL(1, 0, eSrcType, ii)
    IN  RealWord(Atan2DegPlus180(u, v, 1))

UVToDirectionFrom ==
    /\ pc = "idle"
    /\ IF nSources # 2 THEN Failure("UVToDirectionFrom")
       ELSE Success("UVToDirectionFrom",
                    PixelLoop([ii \in Samples |-> UVToDirectionFromPixel(ii)]), FALSE)

\* sigma0HH * pow((1 + 2 tan(a)^2) / (1 + 0.6 tan(a)^2), 2), a = incidence * PI / 180
Sigma0HHIncidenceToSigma0VVPixel(ii) ==
    LET sigma0HH == SRCVAL(0, 0, eSrcType, ii)
        incidence == SRCVAL(1, 0, eSrcType, ii)
    IN  RealWord(IF incidence = Zero \/ sigma0HH = Zero THEN sigma0HH
                 ELSE Term2("sigma0HH*factor", sigma0HH, incidence))

Sigma0HHIncidenceToSigma0VV ==
    /\ pc = "idle"
    /\ IF nSources # 2 THEN Failure("Sigma0HHIncidenceToSigma0VV")
       ELSE Success("Sigma0HHIncidenceToSigma0VV",
                    PixelLoop([ii \in Samples |-> Sigma0HHIncidenceToSigma0VVPixel(ii)]), FALSE)

Next ==
    \/ RealPixelFunc
    \/ ImagPixelFunc
    \/ ModulePixelFunc
    \/ PhasePixelFunc
    \/ ConjPixelFunc
    \/ SumPixelFunc
    \/ DiffPixelFunc
    \/ MulPixelFunc
    \/ CMulPixelFunc
    \/ InvPixelFunc
    \/ IntensityPixelFunc
    \/ SqrtPixelFunc
    \/ Log10PixelFunc
    \/ dB2AmpPixelFunc
    \/ dB2PowPixelFunc
    \/ BetaSigmaToIncidence
    \/ UVToMagnitude
    \/ UVToDirectionTo
    \/ UVToDirectionFrom
    \/ Sigma0HHIncidenceToSigma0VV

Spec == Init /\ [][Next]_vars

(***************************************************************************)
(* Vocabulary of the properties: the tile as the caller sees it.           *)
(***************************************************************************)
Rows == 0..(nYSize - 1)
Cols == 0..(nXSize - 1)
Done == pc = "done"
Succeeded == pc = "done" /\ ret = "CE_None"
SrcComplex == GDALDataTypeIsComplex(eSrcType)

\* real and imaginary part of sample (row, col) of source s (s = 1 is the first)
SampleRe(s, row, col) ==
    papoSources[s][(row * nXSize + col) * ComponentsPerSample(eSrcType) + 1]
SampleIm(s, row, col) ==
    papoSources[s][(row * nXSize + col) * ComponentsPerSample(eSrcType) + 2]

DestAddr(row, col) == row * nLineSpace + col * nPixelSpace

Torn == [re |-> Val("torn", 0, 1, 0, 1, ""), im |-> Val("torn", 0, 1, 0, 1, "")]

\* the element of the destination type found at sample (row, col) of pData
StoredAt(row, col) ==
    LET a == DestAddr(row, col)
    IN  IF \A j \in 0..(ElementSize(eBufType) - 1) :
               pData[a + j] = [e |-> pData[a].e, j |-> j]
        THEN pData[a].e
        ELSE Torn

\* the bytes of the destination samples
SampleBytes ==
    {DestAddr(row, col) + j : row \in Rows, col \in Cols,
                              j \in 0..(ElementSize(eBufType) - 1)}

Untouched == \A a \in DOMAIN pData : pData[a] = SentinelByte /\ nWrites[a] = 0

\* a real, or a complex, result as the destination type represents it
AsStored(v) == GDALCopyWord(RealWord(v), eBufType)
AsStoredComplex(re, im) == GDALCopyWord(ComplexWord(re, im), eBufType)

ExactlyOne == {"real", "imag", "mod", "phase", "conj", "inv", "intensity",
               "sqrt", "log10", "dB2amp", "dB2pow"}
ExactlyTwo == {"diff", "cmul", "BetaSigmaToIncidence", "UVToMagnitude",
               "UVToDirectionTo", "UVToDirectionFrom", "Sigma0HHIncidenceToSigma0VV"}
AtLeastTwo == {"sum", "mul"}
RealOnly == {"sqrt", "dB2amp", "dB2pow"}

ArityViolated ==
    \/ called \in ExactlyOne /\ nSources # 1
    \/ called \in ExactlyTwo /\ nSources # 2
    \/ called \in AtLeastTwo /\ nSources < 2

\* C1: a call whose number of sources violates the transform's arity (exactly 1,
\* exactly 2, or at least 2) returns failure and leaves every destination byte unchanged.
C1_ArityViolationFailsUntouched ==
    (Done /\ ArityViolated) => (ret = "CE_Failure" /\ Untouched)

C1_Witness ==
    /\ Done /\ called = "diff" /\ nSources = 3
    /\ ret = "CE_Failure" /\ Untouched

\* C2: sqrt, dB2amp and dB2pow called with one source of a complex element type
\* return failure without writing any destination sample.
C2_ComplexSourceRejected ==
    (Done /\ called \in RealOnly /\ nSources = 1 /\ SrcComplex)
        => (ret = "CE_Failure" /\ Untouched)

C2_Witness ==
    /\ Done /\ called = "dB2pow" /\ nSources = 1 /\ eSrcType = "CFloat32"
    /\ nXSize = 2 /\ nYSize = 2 /\ ret = "CE_Failure"

\* C3: a call fails only for an arity mismatch or for a complex source passed to a
\* real-only transform; every other call succeeds and writes all W x H samples;
\* inv on a real sample equal to 0 succeeds and stores an infinity.
C3_OnlyTwoErrorKinds ==
    Done =>
        /\ ret \in {"CE_None", "CE_Failure"}
        /\ ret = "CE_Failure" <=> (ArityViolated \/ (called \in RealOnly /\ SrcComplex))
        /\ ret = "CE_None" => \A a \in SampleBytes : nWrites[a] >= 1
        /\ (called = "inv" /\ nSources = 1 /\ ~SrcComplex) =>
              /\ ret = "CE_None"
              /\ \A row \in Rows, col \in Cols :
                    (SampleRe(1, row, col) = Zero /\ ~IsIntegerType(eBufType))
                        => StoredAt(row, col).re = PosInf

C3_Witness ==
    /\ Succeeded /\ called = "inv" /\ eSrcType = "Float32" /\ eBufType = "Float64"
    /\ \E row \in Rows, col \in Cols :
          SampleRe(1, row, col) = Zero /\ StoredAt(row, col).re = PosInf

\* C4: a successful call writes exactly the W*H destination locations
\* row*lineStride + col*pixelStride, each once, and changes no other destination
\* byte and no byte of a source buffer.
C4_WritesExactlyTheSamples ==
    [][(ret' = "CE_None") =>
          /\ papoSources' = papoSources
          /\ \A a \in DOMAIN pData :
                IF a \in SampleBytes
                THEN nWrites'[a] = nWrites[a] + 1
                ELSE nWrites'[a] = nWrites[a] /\ pData'[a] = pData[a]
          /\ \A row \in Rows, col \in Cols : StoredAt(row, col)' # Torn]_vars

C4_Witness ==
    /\ Succeeded /\ called = "mod" /\ nXSize = 2 /\ nYSize = 2
    /\ nPixelSpace > ElementSize(eBufType)
    /\ nLineSpace > nXSize * nPixelSpace
    /\ \E a \in DOMAIN pData : a \notin SampleBytes /\ pData[a] = SentinelByte
    /\ \A a \in SampleBytes : nWrites[a] = 1

\* C5: real writes, for every sample, only the real part of the source sample at
\* linear index row*W + col: a complex destination receives imaginary part 0.
C5_RealWritesRealPartOnly ==
    (Succeeded /\ called = "real") =>
        \A row \in Rows, col \in Cols :
            StoredAt(row, col) = AsStored(SampleRe(1, row, col))

\* C6: imag on a complex source writes, for every sample, the imaginary subfield
\* of the source sample at linear index row*W + col and no part of another sample.
C6_ImagWritesImaginaryPart ==
    (Succeeded /\ called = "imag" /\ SrcComplex) =>
        \A row \in Rows, col \in Cols :
            StoredAt(row, col) = AsStored(SampleIm(1, row, col))

\* C7: imag on a real source writes the constant 0 to every one of the W*H
\* destination samples, whatever the source values and the two types are.
C7_ImagOfRealIsZero ==
    (Succeeded /\ called = "imag" /\ ~SrcComplex) =>
        \A row \in Rows, col \in Cols : StoredAt(row, col) = AsStored(Zero)

C7_Witness ==
    /\ Succeeded /\ called = "imag" /\ eSrcType = "Float32"
    /\ nXSize = 2 /\ nYSize = 2
    /\ \A row \in Rows, col \in Cols :
          SampleRe(1, row, col) # Zero /\ StoredAt(row, col) = AsStored(Zero)

AbsoluteValue(x) == IF Less(x, Zero) THEN Neg(x) ELSE x

\* C8: mod writes the modulus of every source sample: |x| of the sample read as a
\* double for a real source (-2.5 -> 2.5, 0.5 -> 0.5), sqrt(re^2 + im^2) for a
\* complex source.
C8_ModWritesModulus ==
    (Succeeded /\ called = "mod") =>
        \A row \in Rows, col \in Cols :
            StoredAt(row, col) =
                IF SrcComplex
                THEN AsStored(sqrt(Add(Mul(SampleRe(1, row, col), SampleRe(1, row, col)),
                                       Mul(SampleIm(1, row, col), SampleIm(1, row, col)))))
                ELSE AsStored(AbsoluteValue(SampleRe(1, row, col)))

RECURSIVE TotalRe(_, _, _)
TotalRe(s, row, col) ==
    IF s = 0 THEN Zero ELSE Add(TotalRe(s - 1, row, col), SampleRe(s, row, col))

RECURSIVE TotalIm(_, _, _)
TotalIm(s, row, col) ==
    IF s = 0 THEN Zero ELSE Add(TotalIm(s - 1, row, col), SampleIm(s, row, col))

\* the tile of the end-to-end scenario: [[1,2],[3,4]] and [[5,6],[7,8]]
ScenarioTile ==
    /\ nXSize = 2 /\ nYSize = 2 /\ nSources = 2 /\ eSrcType = "Float32"
    /\ papoSources = << <<Int2D(1), Int2D(2), Int2D(3), Int2D(4)>>,
                        <<Int2D(5), Int2D(6), Int2D(7), Int2D(8)>> >>

ScenarioResult ==
    /\ StoredAt(0, 0) = AsStored(Int2D(6))
    /\ StoredAt(0, 1) = AsStored(Int2D(8))
    /\ StoredAt(1, 0) = AsStored(Int2D(10))
    /\ StoredAt(1, 1) = AsStored(Int2D(12))

\* C10: sum on n >= 2 sources writes at sample (row, col) the sum over all sources
\* of the sample at linear index row*W + col (real and imaginary parts summed
\* independently); [[1,2],[3,4]] and [[5,6],[7,8]] give [[6,8],[10,12]].
C10_SumWritesTotal ==
    (Succeeded /\ called = "sum") =>
        /\ nSources >= 2
        /\ \A row \in Rows, col \in Cols :
              StoredAt(row, col) =
                  IF SrcComplex
                  THEN AsStoredComplex(TotalRe(nSources, row, col),
                                       TotalIm(nSources, row, col))
                  ELSE AsStored(TotalRe(nSources, row, col))
        /\ ScenarioTile => ScenarioResult

C10_Witness ==
    /\ Succeeded /\ called = "sum" /\ ScenarioTile /\ eBufType = "Float64"
    /\ StoredAt(0, 0).re = Int2D(6) /\ StoredAt(0, 1).re = Int2D(8)
    /\ StoredAt(1, 0).re = Int2D(10) /\ StoredAt(1, 1).re = Int2D(12)

(***************************************************************************)
(* The caller makes a second call: on the same sources in another order,   *)
(* on the result of the first call, or of real on the inputs of conj.      *)
(***************************************************************************)
\* the element of the destination type found at sample (row, col) of mem
ElementAt(mem, row, col) ==
    LET a == DestAddr(row, col)
    IN  IF \A j \in 0..(ElementSize(eBufType) - 1) :
               mem[a + j] = [e |-> mem[a].e, j |-> j]
        THEN mem[a].e
        ELSE Torn

\* what the caller keeps of the call that has returned
Finished(how) ==
    [called |-> called, pData |-> pData, papoSources |-> papoSources,
     eSrcType |-> eSrcType, how |-> how]

\* a fresh destination buffer and the pixel function name; sizes, strides and
\* the destination type are those of the first call
SecondCall(how, name) ==
    /\ pc = "done" /\ ret = "CE_None"
    /\ history = << >>
    /\ history' = <<Finished(how)>>
    /\ todo' = name
    /\ pc' = "idle"
    /\ called' = "none"
    /\ ret' = "none"
    /\ pData' = [a \in DOMAIN pData |-> SentinelByte]
    /\ nWrites' = [a \in DOMAIN nWrites |-> 0]
    /\ oobRead' = FALSE
    /\ UNCHANGED <<nXSize, nYSize, eBufType, nPixelSpace, nLineSpace,
                   iSample, pending, other>>

CallOnPermutedSources ==
    /\ called \in {"sum", "mul", "diff"}
    /\ SecondCall("permuted", called)
    /\ \E perm \in Permutations(1..nSources) :
          papoSources' = [s \in 1..nSources |-> papoSources[perm[s]]]
    /\ UNCHANGED <<nSources, eSrcType>>

\* the samples of the destination as a packed buffer of the destination type
ResultAsSource ==
    [k \in 1..(nXSize * nYSize * ComponentsPerSample(eBufType)) |->
        LET i == (k - 1) \div ComponentsPerSample(eBufType)
            e == StoredAt(i \div nXSize, i % nXSize)
        IN  IF (k - 1) % ComponentsPerSample(eBufType) = 0 THEN e.re ELSE e.im]

CallOnResult ==
    /\ called = "conj"
    /\ SecondCall("result", "conj")
    /\ papoSources' = <<ResultAsSource>>
    /\ eSrcType' = eBufType
    /\ UNCHANGED nSources

CallRealOnSameInputs ==
    /\ called = "conj"
    /\ SecondCall("same", "real")
    /\ UNCHANGED <<papoSources, nSources, eSrcType>>

NextAgain ==
    \/ Next
    \/ CallOnPermutedSources
    \/ CallOnResult
    \/ CallRealOnSameInputs

SpecAgain == Init /\ [][NextAgain]_vars

SecondDone(name, how) ==
    /\ Succeeded /\ called = name
    /\ Len(history) = 1 /\ history[1].called = name /\ history[1].how = how

StoredBefore(row, col) == ElementAt(history[1].pData, row, col)

\* C11: sum and mul do not depend on the order of the sources: for n >= 2 sources
\* and any permutation of them, the call on the permuted sources writes the same
\* destination contents as the call on the original order (real and complex).
C11_SumMulOrderInsensitive ==
    \A name \in {"sum", "mul"} :
        SecondDone(name, "permuted") =>
            /\ pData = history[1].pData
            /\ \A row \in Rows, col \in Cols :
                  StoredAt(row, col) # Torn /\ StoredAt(row, col) = StoredBefore(row, col)

C11_Witness ==
    /\ SecondDone("mul", "permuted") /\ eSrcType = "CInt16" /\ eBufType = "CFloat32"
    /\ nSources = 3
    /\ papoSources[1] = history[1].papoSources[3]
    /\ papoSources[1] # history[1].papoSources[1]
    /\ pData = history[1].pData
    /\ \E row \in Rows, col \in Cols :
          StoredAt(row, col).re # Zero /\ StoredAt(row, col).im # Zero

Negated(e) == [re |-> Neg(e.re), im |-> IF e.im = NoVal THEN NoVal ELSE Neg(e.im)]

\* C12: diff(b, a) writes at every sample the negation of what diff(a, b) writes:
\* the single value for real sources, both components for complex sources.  (A
\* destination type without negative values holds each of the two as it
\* represents it.)
C12_DiffSwappedIsNegation ==
    (/\ SecondDone("diff", "permuted")
     /\ papoSources[1] = history[1].papoSources[2]
     /\ papoSources[2] = history[1].papoSources[1]) =>
        \A row \in Rows, col \in Cols :
            LET re == Sub(SampleRe(2, row, col), SampleRe(1, row, col))
                im == Sub(SampleIm(2, row, col), SampleIm(1, row, col))
            IN  /\ eBufType # "Byte" => StoredAt(row, col) = Negated(StoredBefore(row, col))
                /\ SrcComplex =>
                      /\ StoredBefore(row, col) = AsStoredComplex(re, im)
                      /\ StoredAt(row, col) = AsStoredComplex(Neg(re), Neg(im))
                /\ ~SrcComplex =>
                      /\ StoredBefore(row, col) = AsStored(re)
                      /\ StoredAt(row, col) = AsStored(Neg(re))

C12_Witness ==
    /\ SecondDone("diff", "permuted") /\ SrcComplex /\ eBufType = "CFloat32"
    /\ papoSources[1] = history[1].papoSources[2]
    /\ papoSources[1] # history[1].papoSources[1]
    /\ \E row \in Rows, col \in Cols :
          /\ StoredBefore(row, col).re # Zero /\ StoredBefore(row, col).im # Zero
          /\ StoredAt(row, col) = Negated(StoredBefore(row, col))

\* real and imaginary part of sample (row, col) of the source of the first call
FirstRe(row, col) == history[1].papoSources[1][(row * nXSize + col) * 2 + 1]
FirstIm(row, col) == history[1].papoSources[1][(row * nXSize + col) * 2 + 2]

\* C13: conj applied to a complex source and then again to the result, used as
\* the source of the second call, yields a destination equal to the original
\* complex samples: real part unchanged, imaginary part restored, at every sample.
C13_ConjTwiceIsIdentity ==
    (SecondDone("conj", "result") /\ GDALDataTypeIsComplex(history[1].eSrcType)) =>
        \A row \in Rows, col \in Cols :
            StoredAt(row, col) = AsStoredComplex(FirstRe(row, col), FirstIm(row, col))

C13_Witness ==
    /\ SecondDone("conj", "result") /\ history[1].eSrcType = "CFloat32"
    /\ eBufType = "CFloat32" /\ nXSize = 2 /\ nYSize = 2
    /\ \A row \in Rows, col \in Cols :
          /\ StoredBefore(row, col).im = Neg(FirstIm(row, col))
          /\ StoredAt(row, col).re = FirstRe(row, col)
          /\ StoredAt(row, col).im = FirstIm(row, col)
    /\ \E row \in Rows, col \in Cols : FirstIm(row, col) # Zero

\* C18: conj writes exactly the destination contents real writes whenever the
\* source type or the destination type is not complex: conj of a real source is
\* the identity, conj of a complex source into a real destination writes the
\* unmodified real part.
C18_ConjFallsBackToReal ==
    (/\ Succeeded /\ called = "real"
     /\ Len(history) = 1 /\ history[1].called = "conj" /\ history[1].how = "same"
     /\ ~(SrcComplex /\ GDALDataTypeIsComplex(eBufType))) =>
        /\ history[1].pData = pData
        /\ \A row \in Rows, col \in Cols :
              StoredBefore(row, col) = AsStored(SampleRe(1, row, col))

C18_Witness ==
    /\ Succeeded /\ called = "real"
    /\ Len(history) = 1 /\ history[1].called = "conj" /\ history[1].how = "same"
    /\ eSrcType = "CFloat32" /\ eBufType = "Float64"
    /\ history[1].pData = pData
    /\ \E row \in Rows, col \in Cols :
          /\ SampleIm(1, row, col) # Zero
          /\ StoredBefore(row, col).re = SampleRe(1, row, col)

(***************************************************************************)
(* Two invocations of a pixel function run concurrently on buffers of      *)
(* their own.  The variables hold the invocation that is running, other    *)
(* holds the one that is switched out; all a pixel function works with are *)
(* its arguments and automatic variables (there is no static or global     *)
(* variable in the file), so all of it belongs to the invocation.          *)
(***************************************************************************)
Context ==
    [live |-> TRUE, papoSources |-> papoSources, nSources |-> nSources,
     pData |-> pData, nXSize |-> nXSize, nYSize |-> nYSize,
     eSrcType |-> eSrcType, eBufType |-> eBufType,
     nPixelSpace |-> nPixelSpace, nLineSpace |-> nLineSpace,
     pc |-> pc, called |-> called, ret |-> ret, nWrites |-> nWrites,
     oobRead |-> oobRead, iSample |-> iSample, pending |-> pending]

Transforms == ExactlyOne \cup ExactlyTwo \cup AtLeastTwo

\* both invocations call the same pixel function with the same sizes, types and
\* strides on one line of samples; the second one has the same source values
\* as the first or other ones
InitConcurrent ==
    /\ InitCall
    /\ nYSize = 1
    /\ nSources <= 2
    /\ nPixelSpace = ElementSize(eBufType)
    /\ nLineSpace = nXSize * nPixelSpace
    /\ todo \in Transforms
    /\ \E sources \in {papoSources,
                       [s \in 1..nSources |->
                           SourceBuffer(0, s - 1, eSrcType, nXSize * nYSize)]} :
          other = [Context EXCEPT !.papoSources = sources]

\* one iteration of the sample loop: the GDALCopyWords of sample iSample
NextSample ==
    /\ pc = "loop"
    /\ iSample < Len(pending)
    /\ pData' = Store(pData, <<pending[iSample + 1]>>, ElementSize(eBufType))
    /\ nWrites' = CountWrites(nWrites, <<pending[iSample + 1]>>, ElementSize(eBufType))
    /\ iSample' = iSample + 1
    /\ UNCHANGED <<args, pc, called, ret, oobRead, pending, other, history, todo>>

\* return CE_None after the loop
Return ==
    /\ pc = "loop"
    /\ iSample = Len(pending)
    /\ pc' = "done"
    /\ ret' = "CE_None"
    /\ UNCHANGED <<args, pData, nWrites, called, oobRead, iSample, pending,
                   other, history, todo>>

\* the scheduler runs the other invocation
Switch ==
    /\ other.live
    /\ other.pc # "done"
    /\ other' = Context
    /\ papoSources' = other.papoSources
    /\ nSources' = other.nSources
    /\ pData' = other.pData
    /\ nXSize' = other.nXSize
    /\ nYSize' = other.nYSize
    /\ eSrcType' = other.eSrcType
    /\ eBufType' = other.eBufType
    /\ nPixelSpace' = other.nPixelSpace
    /\ nLineSpace' = other.nLineSpace
    /\ pc' = other.pc
    /\ called' = other.called
    /\ ret' = other.ret
    /\ nWrites' = other.nWrites
    /\ oobRead' = other.oobRead
    /\ iSample' = other.iSample
    /\ pending' = other.pending
    /\ UNCHANGED <<history, todo>>

NextConcurrent ==
    \/ Next
    \/ NextSample
    \/ Return
    \/ Switch

SpecConcurrent == InitConcurrent /\ [][NextConcurrent]_vars

\* the destination of an invocation is what the call leaves when it runs alone:
\* nothing on failure, else the writes of its loop on the buffer it was given
RanAlone(c) ==
    IF c.ret = "CE_Failure"
    THEN c.pData = [a \in DOMAIN c.pData |-> SentinelByte]
    ELSE /\ c.ret = "CE_None"
         /\ c.pData = Store([a \in DOMAIN c.pData |-> SentinelByte], c.pending,
                            ElementSize(c.eBufType))

SameInputs(c, d) ==
    /\ c.called = d.called
    /\ c.papoSources = d.papoSources /\ c.nSources = d.nSources
    /\ c.nXSize = d.nXSize /\ c.nYSize = d.nYSize
    /\ c.eSrcType = d.eSrcType /\ c.eBufType = d.eBufType
    /\ c.nPixelSpace = d.nPixelSpace /\ c.nLineSpace = d.nLineSpace

BothDone == other.live /\ pc = "done" /\ other.pc = "done"

\* C15: the transforms keep no state between or across calls: two invocations
\* that run concurrently, their sample steps interleaved in any way, on disjoint
\* buffers each leave the destination the invocation leaves when run alone, and
\* calls with identical inputs leave identical destination contents.
C15_NoStateAcrossCalls ==
    BothDone =>
        /\ RanAlone(Context)
        /\ RanAlone(other)
        /\ SameInputs(Context, other) => (ret = other.ret /\ pData = other.pData)

\* the two wind components of sample (row, col): the first and the second source
WindU(row, col) == SampleRe(1, row, col)
WindV(row, col) == SampleRe(2, row, col)

\* C14 as stated: UVToDirectionTo computes atan2(-u, -v) in degrees plus 180 and
\* yields 0 degrees for (u = 0, v = -1) and 270 degrees for (u = 1, v = 0).
C14_DirectionToAsStated ==
    (Succeeded /\ called = "UVToDirectionTo") =>
        \A row \in Rows, col \in Cols :
            /\ StoredAt(row, col) =
                   AsStored(Atan2DegPlus180(Neg(WindU(row, col)), Neg(WindV(row, col)), -1))
            /\ (WindU(row, col) = Zero /\ WindV(row, col) = Int2D(-1))
                   => StoredAt(row, col) \in {AsStored(Zero), AsStored(NearDegrees(0))}
            /\ (WindU(row, col) = One /\ WindV(row, col) = Zero)
                   => StoredAt(row, col) \in {AsStored(Int2D(270)),
                                              AsStored(NearDegrees(270))}

\* C14 amended: UVToDirectionTo computes atan2(-u, -v) in degrees plus 180 and
\* yields 180 degrees for (u = 0, v = -1) and 90 degrees, up to the rounding of
\* PI, for (u = 1, v = 0).
C14_DirectionToCardinals ==
    (Succeeded /\ called = "UVToDirectionTo") =>
        \A row \in Rows, col \in Cols :
            /\ StoredAt(row, col) =
                   AsStored(Atan2DegPlus180(Neg(WindU(row, col)), Neg(WindV(row, col)), -1))
            /\ (WindU(row, col) = Zero /\ WindV(row, col) = Int2D(-1))
                   => StoredAt(row, col) = AsStored(Int2D(180))
            /\ (WindU(row, col) = One /\ WindV(row, col) = Zero)
                   => StoredAt(row, col) = AsStored(NearDegrees(90))

C14_Witness ==
    /\ Succeeded /\ called = "UVToDirectionTo" /\ eBufType = "Float64"
    /\ \E row \in Rows, col \in Cols :
          /\ WindU(row, col) = Zero /\ WindV(row, col) = Int2D(-1)
          /\ StoredAt(row, col).re = Int2D(180)
    /\ \E row \in Rows, col \in Cols :
          /\ WindU(row, col) = One /\ WindV(row, col) = Zero
          /\ StoredAt(row, col).re = NearDegrees(90)

\* C16: cmul on two complex sources writes src0 * conj(src1), that is
\* (re0*re1 + im0*im1, re1*im0 - re0*im1); on two real sources it writes
\* (x0*x1, 0), the imaginary part being 0 at every sample of the tile.
C16_CMulWritesConjugateProduct ==
    (Succeeded /\ called = "cmul") =>
        \A row \in Rows, col \in Cols :
            StoredAt(row, col) =
                IF SrcComplex
                THEN AsStoredComplex(
                         Add(Mul(SampleRe(1, row, col), SampleRe(2, row, col)),
                             Mul(SampleIm(1, row, col), SampleIm(2, row, col))),
                         Sub(Mul(SampleRe(2, row, col), SampleIm(1, row, col)),
                             Mul(SampleRe(1, row, col), SampleIm(2, row, col))))
                ELSE AsStoredComplex(Mul(SampleRe(1, row, col), SampleRe(2, row, col)),
                                     Zero)

C16_Witness ==
    /\ Succeeded /\ called = "cmul" /\ eSrcType = "Float32" /\ eBufType = "CFloat32"
    /\ nXSize = 2 /\ nYSize = 2
    /\ \A row \in Rows, col \in Cols :
          /\ StoredAt(row, col).re # Zero
          /\ StoredAt(row, col).re = Mul(SampleRe(1, row, col), SampleRe(2, row, col))
          /\ StoredAt(row, col).im = Zero

\* C17: BetaSigmaToIncidence writes 0 for every sample whose first source (beta0)
\* is 0, whatever sigma0 is, and otherwise asin(sigma0 / beta0) in degrees with
\* no further guard: for a ratio outside [-1, 1] the call succeeds and stores NaN.
C17_IncidenceGuardsOnlyBetaZero ==
    (Done /\ called = "BetaSigmaToIncidence" /\ nSources = 2) =>
        /\ ret = "CE_None"
        /\ \A row \in Rows, col \in Cols :
              LET beta0 == SampleRe(1, row, col)
                  sigma0 == SampleRe(2, row, col)
                  ratio == Div(sigma0, beta0)
              IN  /\ beta0 = Zero => StoredAt(row, col) = AsStored(Zero)
                  /\ beta0 # Zero => StoredAt(row, col) = AsStored(AsinDeg(ratio))
                  /\ (beta0 # Zero /\ (Less(One, ratio) \/ Less(ratio, Int2D(-1))))
                         => StoredAt(row, col) = AsStored(NaN)

C17_Witness ==
    /\ Succeeded /\ called = "BetaSigmaToIncidence" /\ eBufType = "Float64"
    /\ \E row \in Rows, col \in Cols :
          /\ SampleRe(1, row, col) = Zero /\ SampleRe(2, row, col) # Zero
          /\ StoredAt(row, col).re = Zero
    /\ \E row \in Rows, col \in Cols :
          /\ SampleRe(1, row, col) # Zero
          /\ Less(One, Div(SampleRe(2, row, col), SampleRe(1, row, col)))
          /\ StoredAt(row, col).re = NaN

\* C19: during any call every read from a source buffer lies inside its packed
\* extent of W*H elements: the imaginary-part pointer, half an element into the
\* buffer, never causes a read past the end.
C19_SourceReadsInsideExtent ==
    Done => ~oobRead

====
